---- MODULE Spec2Model ----
(***************************************************************************)
(* A model of juro::promise (include/juro/promise.hpp), its factories      *)
(* (include/juro/factories.hpp) and type helpers (include/juro/helpers.hpp)*)
(*                                                                         *)
(* The library is single threaded and synchronous: settling a promise runs *)
(* its continuation, which runs a handler, which settles the next promise, *)
(* all on one call stack.  Every library function is an operator that      *)
(* takes the heap ("world") w and returns a result record                  *)
(*     [w |-> heap afterwards, exc |-> exception in flight, ret |-> value] *)
(* so that one action of the model is one whole call made by the user of   *)
(* the library, nested calls included.                                     *)
(***************************************************************************)
EXTENDS Integers, Sequences, FiniteSets, TLC

\* ---------------------------------------------------------------- bounds
MaxPromises == 3       \* promises that can be allocated in one behaviour
MaxRoots == 1          \* of them, promises made by a factory
MaxValue == 1          \* promised integers are 1..MaxValue
MaxError == 1          \* domain errors thrown / rejected are 1..MaxError
MaxChain == 4          \* promises of one behaviour of SpecChain
MaxChainRoots == 2     \* of them, promises made by a factory

\* ---------------------------------------------------------------- objects
\* Every C++ object that can sit in a promise or fly as an exception has the
\* same shape: t is its type, n its payload, msg the what() of a
\* promise_error, d the number of std::exception_ptr layers around it.
Obj(t, n, msg, d) == [t |-> t, n |-> n, msg |-> msg, d |-> d]

empty_type == Obj("empty_type", 0, "", 0)
void_type == Obj("void_type", 0, "", 0)
nullopt == Obj("nullopt", 0, "", 0)
Int_(n) == Obj("int", n, "", 0)
Error_(n) == Obj("error", n, "", 0)
promise_ptr(p) == Obj("promise_ptr", p, "", 0)
promise_error(msg) == Obj("promise_error", 0, msg, 0)

\* No exception in flight.
NoExc == Obj("no_exception", 0, "", 0)

\* std::make_exception_ptr / std::current_exception add one layer,
\* std::rethrow_exception throws the object inside the pointer.
make_exception_ptr(x) == [x EXCEPT !.d = @ + 1]
current_exception(thrown) == [thrown EXCEPT !.d = @ + 1]
\* throw error; in place of std::rethrow_exception(error): the pointer is thrown.
rethrow_exception_ThrowsPointer(ptr) == ptr

rethrow_exception(ptr) == [ptr EXCEPT !.d = @ - 1]

is_exception_ptr(x) == x.d >= 1

\* rejection_value without the test for std::exception_ptr.
rejection_value_AlwaysWraps(v) == make_exception_ptr(v)

\* promise::rejection_value
rejection_value(v) == IF is_exception_ptr(v) THEN v ELSE make_exception_ptr(v)

\* The three states of promise_state.
PENDING == "PENDING"
RESOLVED == "RESOLVED"
REJECTED == "REJECTED"

\* The alternative of settle_type that a slot holds.
is_empty(slot) == slot.t = "empty_type"
holds_error(slot) == is_exception_ptr(slot)
holds_value(slot) == ~is_empty(slot) /\ ~holds_error(slot)

\* The two contract errors of the specification, as the code throws them.
AlreadySettled(x) ==
    /\ x.t = "promise_error" /\ x.d = 0
    /\ x.msg \in {"Attempted to resolve settled promise",
                  "Attempted to reject settled promise"}
UnhandledRejection(x) ==
    x.t = "promise_error" /\ x.d = 0 /\ x.msg = "Unhandled promise rejection"

\* ---------------------------------------------------------------- types
\* A C++ type is its name in prefix form: <<"optional", "int">> is
\* std::optional<int>, <<"variant", "int", "str">> is std::variant<int, str>.
Void == <<"void">>
IntT == <<"int">>
StringT == <<"str">>
PromisePtrT(T) == <<"promise_ptr">> \o T
OptionalT(T) == <<"optional">> \o T
VariantT(T1, T2) == <<"variant">> \o T1 \o T2

is_void_v(T) == T = Void
is_promise_v(T) == Head(T) = "promise_ptr"

RECURSIVE unwrap_if_promise_t(_)
unwrap_if_promise_t(T) ==
    IF is_promise_v(T) THEN unwrap_if_promise_t(Tail(T)) ELSE T

\* common_container without the specialisation for two equal types.
common_container_t_NoSame(T1, T2) ==
    IF is_void_v(T1) /\ is_void_v(T2) THEN Void
    ELSE IF is_void_v(T1) THEN OptionalT(T2)
    ELSE IF is_void_v(T2) THEN OptionalT(T1)
    ELSE VariantT(T1, T2)

common_container_t(T1, T2) ==
    IF T1 = T2 THEN T1
    ELSE IF is_void_v(T1) THEN OptionalT(T2)
    ELSE IF is_void_v(T2) THEN OptionalT(T1)
    ELSE VariantT(T1, T2)

\* value_type {} : the value a defaulted resolve() stores.
RECURSIVE value_initialized(_)
value_initialized(T) ==
    IF is_void_v(T) THEN void_type
    ELSE IF Head(T) = "optional" THEN nullopt
    ELSE IF Head(T) = "promise_ptr" THEN promise_ptr(0)
    ELSE IF Head(T) = "variant" THEN value_initialized(Tail(T))
    ELSE Int_(0)

\* ---------------------------------------------------------------- handlers
\* A functor handed to then / rescue / finally, or to make_promise, is the
\* record of what it does when called: body is its code, ret its declared
\* return type, n and x the things it captured.
Handler(body, ret, n, x) == [body |-> body, ret |-> ret, n |-> n, x |-> x]
NoHandler == Handler("none", Void, 0, empty_type)

\* std::function<void()> on_settle: empty, or the closure built by then /
\* finally, which captured next_promise and the two handlers.
NoContinuation ==
    [set |-> FALSE, next |-> 0, on_resolve |-> NoHandler, on_reject |-> NoHandler]
Closure(next_promise, on_resolve, on_reject) ==
    [set |-> TRUE, next |-> next_promise,
     on_resolve |-> on_resolve, on_reject |-> on_reject]

resolve_result_t(on_resolve) == on_resolve.ret
reject_result_t(on_reject) == on_reject.ret

chained_promise_type(on_resolve, on_reject) ==
    common_container_t(unwrap_if_promise_t(resolve_result_t(on_resolve)),
                       unwrap_if_promise_t(reject_result_t(on_reject)))

resolves_void_v(h) == is_void_v(h.ret)
resolves_promise_v(h) == ~is_void_v(h.ret) /\ is_promise_v(h.ret)
resolves_value_v(h) == ~is_void_v(h.ret) /\ ~is_promise_v(h.ret)

\* ---------------------------------------------------------------- the heap
\* Promise 0 is the null handle; it also takes the place of a promise that
\* could not be allocated within MaxPromises (the world is then marked oom
\* and the step is not taken).  The promise that pipe makes and drops the
\* handle of is no promise of the user: it does not count, and there is at
\* most one for each continuation.
PromiseId == 0..(2 * (IF MaxChain > MaxPromises THEN MaxChain ELSE MaxPromises))
Allocated(w) == 1..w.alloc
Handles(w) == {p \in Allocated(w) : w.origin[p] # "pipe"}

\* A promise whose state and slot agree with each other.
Consistent(st, slot) ==
    /\ st = PENDING <=> is_empty(slot)
    /\ st = RESOLVED <=> holds_value(slot)
    /\ st = REJECTED <=> holds_error(slot)

\* An entry of the trace of the call in progress: what happens (ev) to which
\* promise (p), with the downstream promise q and the side of the handler
\* concerned.  st and val are the state and slot of p as the code at that
\* point can read them.
Event(w, ev, p, q, which, arg) ==
    [ev |-> ev, p |-> p, q |-> q, which |-> which, arg |-> arg,
     st |-> w.state[p], val |-> w.value[p]]
Log(w, ev, p, q, which, arg) ==
    [w EXCEPT !.log = Append(@, Event(w, ev, p, q, which, arg))]

\* The promises made by a factory called by the user.
Roots(w) ==
    {p \in Allocated(w) :
        w.origin[p] \in {"make_promise", "make_resolved", "make_rejected"}}

\* What a call hands back: the heap, the exception in flight, the value.
Return(w, ret) == [w |-> w, exc |-> NoExc, ret |-> ret]
Throw(w, x) == [w |-> w, exc |-> x, ret |-> void_type]
Threw(r) == r.exc # NoExc

\* throw promise_error { msg } inside a member function of promise p.
ThrowPromiseError(w, p, msg) ==
    Throw(Log(w, "raise", p, 0, "", promise_error(msg)), promise_error(msg))

\* std::make_shared<promise<T>>(...): a new promise object with the given
\* members, and the handle to it.
make_shared(w, T, state, value, origin) ==
    LET full == origin # "pipe" /\ Cardinality(Handles(w)) >= w.cap.promises
        p == IF full THEN 0 ELSE w.alloc + 1
    IN  Return([w EXCEPT !.alloc = IF full THEN @ ELSE p,
                         !.oom = @ \/ full,
                         !.state[p] = state,
                         !.value[p] = value,
                         !.on_settle[p] = NoContinuation,
                         !.ptype[p] = T,
                         !.origin[p] = origin,
                         !.upstream[p] = 0],
               promise_ptr(p))

\* promise(): the members' default initialisers.
promise_default(w, T, origin) == make_shared(w, T, PENDING, empty_type, origin)

\* promise(resolved_promise_tag, value)
promise_resolved(w, T, value) == make_shared(w, T, RESOLVED, value, "make_resolved")

\* promise(rejected_promise_tag, value) storing the value as it came, not as
\* an exception_ptr.
promise_rejected_Raw(w, T, value) ==
    make_shared(w, T, REJECTED, value, "make_rejected")

\* promise(rejected_promise_tag, value)
promise_rejected(w, T, value) ==
    make_shared(w, T, REJECTED, rejection_value(value), "make_rejected")

\* ---------------------------------------------------------------- calls
\* A call made from inside the library or from a handler is a frame handed to
\* Exec, which runs the body of the function named in it to completion.
RECURSIVE Exec(_, _)

ResolveCall(this, resolved_value) ==
    [fn |-> "resolve", this |-> this, arg |-> resolved_value]
RejectCall(this, rejected_value) ==
    [fn |-> "reject", this |-> this, arg |-> rejected_value]
OnSettleCall(this) == [fn |-> "on_settle", this |-> this]
HandleResolveCall(this, on_resolve, next_promise) ==
    [fn |-> "handle_resolve", this |-> this, h |-> on_resolve,
     next |-> next_promise]
HandleRejectCall(this, on_reject, next_promise) ==
    [fn |-> "handle_reject", this |-> this, h |-> on_reject,
     next |-> next_promise]
InvokeCall(h, arg, this, next_promise, which) ==
    [fn |-> "invoke", this |-> this, h |-> h, arg |-> arg,
     next |-> next_promise, which |-> which]
ThenCall(this, on_resolve, on_reject, origin) ==
    [fn |-> "then", this |-> this, on_resolve |-> on_resolve,
     on_reject |-> on_reject, origin |-> origin]
PipeCall(this, next_promise) ==
    [fn |-> "pipe", this |-> this, next |-> next_promise]
LaunchCall(launcher, p) == [fn |-> "launch", h |-> launcher, this |-> p]

\* The launcher then / finally hand to make_promise: it captures this and the
\* two handlers.
ThenLauncher(this, on_resolve, on_reject) ==
    [body |-> "then", this |-> this, on_resolve |-> on_resolve,
     on_reject |-> on_reject]

\* make_promise that hands the promise back without calling the launcher.
make_promise_NoLaunch(w, T, origin, launcher) == promise_default(w, T, origin)

\* make_promise<T>(launcher)
make_promise(w, T, origin, launcher) ==
    LET p == promise_default(w, T, origin)
        r == Exec(p.w, LaunchCall(launcher, p.ret.n))
    IN  IF Threw(r) THEN r ELSE Return(r.w, p.ret)

\* ---------------------------------------------------------------- promise
\* The call of a handler: what each functor body does with its argument.
\* this is the promise whose continuation calls the handler, next_promise the
\* downstream promise of that continuation, which the side of the switch.
Invoke(w, h, arg, this, next_promise, which) ==
    LET w1 == [Log(w, "call", this, next_promise, which, arg)
                 EXCEPT !.called[next_promise][which] = @ + 1]
        r == CASE h.body = "ret_void" -> Return(w1, void_type)
               [] h.body = "nop" -> Return(w1, void_type)
               [] h.body = "ret_const" -> Return(w1, Int_(h.n))
               [] h.body = "ret_inc" -> Return(w1, Int_(arg.n + 1))
               [] h.body = "identity" -> Return(w1, arg)
               [] h.body = "ret_promise" -> Return(w1, promise_ptr(h.n))
               [] h.body = "throw" -> Throw(w1, h.x)
               [] h.body = "rethrow" -> Throw(w1, rethrow_exception(arg))
               [] h.body = "call_resolve" -> Exec(w1, ResolveCall(h.n, h.x))
               [] h.body = "call_reject" -> Exec(w1, RejectCall(h.n, h.x))
               [] h.body = "pipe_resolve_void" ->
                    Exec(w1, ResolveCall(h.n, value_initialized(w1.ptype[h.n])))
               [] h.body = "pipe_resolve" -> Exec(w1, ResolveCall(h.n, arg))
               [] h.body = "pipe_reject" -> Exec(w1, RejectCall(h.n, arg))
    IN  [r EXCEPT !.w = Log(@, "end", this, next_promise, which, r.exc)]

\* promise::resolve without the check of the state.
resolve_Unguarded(w, this, resolved_value) ==
    LET w1 == [w EXCEPT !.state[this] = RESOLVED,
                        !.value[this] = resolved_value]
        w2 == Log(w1, "settle", this, 0, "", resolved_value)
    IN  IF w2.on_settle[this].set
        THEN Exec(w2, OnSettleCall(this))
        ELSE Return(w2, void_type)

\* promise::resolve that returns when the promise is settled.
resolve_SilentWhenSettled(w, this, resolved_value) ==
    IF w.state[this] # PENDING
    THEN Return(w, void_type)
    ELSE LET w1 == [w EXCEPT !.state[this] = RESOLVED,
                             !.value[this] = resolved_value]
             w2 == Log(w1, "settle", this, 0, "", resolved_value)
         IN  IF w2.on_settle[this].set
             THEN Exec(w2, OnSettleCall(this))
             ELSE Return(w2, void_type)

\* promise::has_handler
has_handler(w, this) == w.on_settle[this].set

\* promise::resolve running the continuation a second time.
resolve_FiresTwice(w, this, resolved_value) ==
    IF w.state[this] # PENDING
    THEN ThrowPromiseError(w, this, "Attempted to resolve settled promise")
    ELSE LET w1 == [w EXCEPT !.state[this] = RESOLVED,
                             !.value[this] = resolved_value]
             w2 == Log(w1, "settle", this, 0, "", resolved_value)
         IN  IF w2.on_settle[this].set
             THEN LET r == Exec(w2, OnSettleCall(this))
                  IN  IF Threw(r) THEN r ELSE Exec(r.w, OnSettleCall(this))
             ELSE Return(w2, void_type)

\* promise::resolve undoing the settlement when the continuation throws.
resolve_RollsBack(w, this, resolved_value) ==
    IF w.state[this] # PENDING
    THEN ThrowPromiseError(w, this, "Attempted to resolve settled promise")
    ELSE LET w1 == [w EXCEPT !.state[this] = RESOLVED,
                             !.value[this] = resolved_value]
             w2 == Log(w1, "settle", this, 0, "", resolved_value)
             r == IF w2.on_settle[this].set
                  THEN Exec(w2, OnSettleCall(this))
                  ELSE Return(w2, void_type)
         IN  IF Threw(r)
             THEN [r EXCEPT !.w.state[this] = PENDING,
                            !.w.value[this] = empty_type]
             ELSE r

\* promise::resolve leaving the continuation for later.
resolve_Deferred(w, this, resolved_value) ==
    IF w.state[this] # PENDING
    THEN ThrowPromiseError(w, this, "Attempted to resolve settled promise")
    ELSE LET w1 == [w EXCEPT !.state[this] = RESOLVED,
                             !.value[this] = resolved_value]
         IN  Return(Log(w1, "settle", this, 0, "", resolved_value), void_type)

\* promise::resolve
resolve(w, this, resolved_value) ==
    IF w.state[this] # PENDING
    THEN ThrowPromiseError(w, this, "Attempted to resolve settled promise")
    ELSE LET w1 == [w EXCEPT !.state[this] = RESOLVED,
                             !.value[this] = resolved_value]
             w2 == Log(w1, "settle", this, 0, "", resolved_value)
         IN  IF w2.on_settle[this].set
             THEN Exec(w2, OnSettleCall(this))
             ELSE Return(w2, void_type)

\* promise::reject without the check of the state.
reject_Unguarded(w, this, rejected_value) ==
    LET w1 == [w EXCEPT !.state[this] = REJECTED,
                        !.value[this] = rejection_value(rejected_value)]
        w2 == Log(w1, "settle", this, 0, "", w1.value[this])
    IN  IF w2.on_settle[this].set
        THEN Exec(w2, OnSettleCall(this))
        ELSE ThrowPromiseError(w2, this, "Unhandled promise rejection")

\* promise::reject that returns when there is no continuation.
reject_Silent(w, this, rejected_value) ==
    IF w.state[this] # PENDING
    THEN ThrowPromiseError(w, this, "Attempted to reject settled promise")
    ELSE LET w1 == [w EXCEPT !.state[this] = REJECTED,
                             !.value[this] = rejection_value(rejected_value)]
             w2 == Log(w1, "settle", this, 0, "", w1.value[this])
         IN  IF w2.on_settle[this].set
             THEN Exec(w2, OnSettleCall(this))
             ELSE Return(w2, void_type)

\* promise::reject calling the continuation before it stores the error.
reject_FireFirst(w, this, rejected_value) ==
    IF w.state[this] # PENDING
    THEN ThrowPromiseError(w, this, "Attempted to reject settled promise")
    ELSE LET r == IF w.on_settle[this].set
                  THEN Exec(w, OnSettleCall(this))
                  ELSE ThrowPromiseError(w, this, "Unhandled promise rejection")
             w1 == [r.w EXCEPT !.state[this] = REJECTED,
                               !.value[this] = rejection_value(rejected_value)]
         IN  [r EXCEPT !.w = Log(w1, "settle", this, 0, "", w1.value[this])]

\* promise::reject
reject(w, this, rejected_value) ==
    IF w.state[this] # PENDING
    THEN ThrowPromiseError(w, this, "Attempted to reject settled promise")
    ELSE LET w1 == [w EXCEPT !.state[this] = REJECTED,
                             !.value[this] = rejection_value(rejected_value)]
             w2 == Log(w1, "settle", this, 0, "", w1.value[this])
         IN  IF w2.on_settle[this].set
             THEN Exec(w2, OnSettleCall(this))
             ELSE ThrowPromiseError(w2, this, "Unhandled promise rejection")

\* The closure without its try / catch.
on_settle_NoCatch(w, this) ==
    LET c == w.on_settle[this]
        w1 == [Log(w, "fire", this, c.next, "", w.value[this])
                 EXCEPT !.fired[c.next] = @ + 1]
    IN  CASE w1.state[this] = RESOLVED ->
                Exec(w1, HandleResolveCall(this, c.on_resolve, c.next))
          [] w1.state[this] = REJECTED ->
                Exec(w1, HandleRejectCall(this, c.on_reject, c.next))
          [] OTHER -> Return(w1, void_type)

\* The closure with the break of case RESOLVED missing: it falls through to
\* case REJECTED.
on_settle_FallsThrough(w, this) ==
    LET c == w.on_settle[this]
        w1 == [Log(w, "fire", this, c.next, "", w.value[this])
                 EXCEPT !.fired[c.next] = @ + 1]
        r1 == IF w1.state[this] = RESOLVED
              THEN Exec(w1, HandleResolveCall(this, c.on_resolve, c.next))
              ELSE Return(w1, void_type)
        r == IF Threw(r1) \/ w1.state[this] = PENDING THEN r1
             ELSE Exec(r1.w, HandleRejectCall(this, c.on_reject, c.next))
    IN  IF Threw(r)
        THEN Exec(r.w, RejectCall(c.next, current_exception(r.exc)))
        ELSE r

\* on_settle(): the body of the closure that then / finally stored in
\* this->on_settle.
on_settle(w, this) ==
    LET c == w.on_settle[this]
        w1 == [Log(w, "fire", this, c.next, "", w.value[this])
                 EXCEPT !.fired[c.next] = @ + 1]
        r == CASE w1.state[this] = RESOLVED ->
                    Exec(w1, HandleResolveCall(this, c.on_resolve, c.next))
               [] w1.state[this] = REJECTED ->
                    Exec(w1, HandleRejectCall(this, c.on_reject, c.next))
               [] OTHER -> Return(w1, void_type)
    IN  IF Threw(r)
        THEN Exec(r.w, RejectCall(c.next, current_exception(r.exc)))
        ELSE r

\* handle_resolve / handle_reject that call resolve() whatever the handler
\* returned.
Chain_DropsResult(r, handler, next_promise) ==
    IF Threw(r) THEN r
    ELSE IF resolves_promise_v(handler)
    THEN Exec(r.w, PipeCall(r.ret.n, next_promise))
    ELSE Exec(r.w, ResolveCall(next_promise,
                               value_initialized(r.w.ptype[next_promise])))

\* What handle_resolve and handle_reject do with the promise next_promise once
\* the handler has come back with r: the three kinds of overload.
Chain(r, handler, next_promise) ==
    IF Threw(r) THEN r
    ELSE IF resolves_void_v(handler)
    THEN Exec(r.w, ResolveCall(next_promise,
                               value_initialized(r.w.ptype[next_promise])))
    ELSE IF resolves_promise_v(handler)
    THEN Exec(r.w, PipeCall(r.ret.n, next_promise))
    ELSE Exec(r.w, ResolveCall(next_promise, r.ret))

\* handle_resolve that resolves next_promise before it calls the handler.
handle_resolve_ForwardFirst(w, this, on_resolve, next_promise) ==
    LET arg == IF is_void_v(w.ptype[this]) THEN void_type ELSE w.value[this]
        r == Exec(w, ResolveCall(next_promise,
                                 value_initialized(w.ptype[next_promise])))
    IN  IF Threw(r) THEN r
        ELSE Exec(r.w, InvokeCall(on_resolve, arg, this, next_promise,
                                  "on_resolve"))

\* handle_resolve that calls the handler and leaves next_promise alone.
handle_resolve_NoForward(w, this, on_resolve, next_promise) ==
    LET arg == IF is_void_v(w.ptype[this]) THEN void_type ELSE w.value[this]
    IN  Exec(w, InvokeCall(on_resolve, arg, this, next_promise, "on_resolve"))

\* promise::handle_resolve, all six overloads
handle_resolve(w, this, on_resolve, next_promise) ==
    LET arg == IF is_void_v(w.ptype[this]) THEN void_type ELSE w.value[this]
    IN  Chain(Exec(w, InvokeCall(on_resolve, arg, this, next_promise,
                                 "on_resolve")),
              on_resolve, next_promise)

\* promise::handle_reject, all three overloads
handle_reject(w, this, on_reject, next_promise) ==
    LET rejected_value == w.value[this]
    IN  Chain(Exec(w, InvokeCall(on_reject, rejected_value, this, next_promise,
                                 "on_reject")),
              on_reject, next_promise)

\* promise::then(on_resolve, on_reject).  origin names the member function
\* the user called (then, rescue, finally) or pipe.
then(w, this, on_resolve, on_reject, origin) ==
    make_promise(w, chained_promise_type(on_resolve, on_reject), origin,
                 ThenLauncher(this, on_resolve, on_reject))

\* The launcher of then that never runs the continuation itself.
ThenLaunch_NoLateFire(w, launcher, next_promise) ==
    LET this == launcher.this
        old == w.on_settle[this]
        w1 == [w EXCEPT
                !.on_settle[this] =
                    Closure(next_promise, launcher.on_resolve,
                            launcher.on_reject),
                !.upstream[next_promise] = this,
                !.dropped = IF old.set /\ w.state[this] = PENDING
                            THEN @ \cup {old.next} ELSE @]
    IN  Return(Log(w1, "attach", this, next_promise, "", empty_type), void_type)

\* The launcher of then that keeps the continuation a PENDING promise has.
ThenLaunch_KeepFirst(w, launcher, next_promise) ==
    LET this == launcher.this
        old == w.on_settle[this]
        w1 == [w EXCEPT
                !.on_settle[this] =
                    IF old.set /\ w.state[this] = PENDING THEN old
                    ELSE Closure(next_promise, launcher.on_resolve,
                                 launcher.on_reject),
                !.upstream[next_promise] = this,
                !.dropped = IF old.set /\ w.state[this] = PENDING
                            THEN @ \cup {old.next} ELSE @]
        w2 == Log(w1, "attach", this, next_promise, "", empty_type)
    IN  IF w2.state[this] # PENDING
        THEN Exec(w2, OnSettleCall(this))
        ELSE Return(w2, void_type)

\* The launcher of then that runs the continuation at once only when this is
\* RESOLVED.
ThenLaunch_FireResolvedOnly(w, launcher, next_promise) ==
    LET this == launcher.this
        old == w.on_settle[this]
        w1 == [w EXCEPT
                !.on_settle[this] =
                    Closure(next_promise, launcher.on_resolve,
                            launcher.on_reject),
                !.upstream[next_promise] = this,
                !.dropped = IF old.set /\ w.state[this] = PENDING
                            THEN @ \cup {old.next} ELSE @]
        w2 == Log(w1, "attach", this, next_promise, "", empty_type)
    IN  IF w2.state[this] = RESOLVED
        THEN Exec(w2, OnSettleCall(this))
        ELSE Return(w2, void_type)

\* The launcher of then: it stores the continuation in this->on_settle, and
\* runs it at once when this is settled.
ThenLaunch(w, launcher, next_promise) ==
    LET this == launcher.this
        old == w.on_settle[this]
        w1 == [w EXCEPT
                !.on_settle[this] =
                    Closure(next_promise, launcher.on_resolve,
                            launcher.on_reject),
                !.upstream[next_promise] = this,
                !.dropped = IF old.set /\ w.state[this] = PENDING
                            THEN @ \cup {old.next} ELSE @]
        w2 == Log(w1, "attach", this, next_promise, "", empty_type)
    IN  IF w2.state[this] # PENDING
        THEN Exec(w2, OnSettleCall(this))
        ELSE Return(w2, void_type)

\* promise::pipe whose reject handler resolves next_promise.
pipe_ResolvesOnReject(w, this, next_promise) ==
    LET on_resolve ==
            IF is_void_v(w.ptype[this])
            THEN Handler("pipe_resolve_void", Void, next_promise, empty_type)
            ELSE Handler("pipe_resolve", Void, next_promise, empty_type)
        r == Exec(w, ThenCall(this, on_resolve,
                              Handler("pipe_resolve_void", Void, next_promise,
                                      empty_type),
                              "pipe"))
    IN  IF Threw(r) THEN r ELSE Return(r.w, void_type)

\* promise::pipe
pipe(w, this, next_promise) ==
    LET on_resolve ==
            IF is_void_v(w.ptype[this])
            THEN Handler("pipe_resolve_void", Void, next_promise, empty_type)
            ELSE Handler("pipe_resolve", Void, next_promise, empty_type)
        r == Exec(w, ThenCall(this, on_resolve,
                              Handler("pipe_reject", Void, next_promise,
                                      empty_type),
                              "pipe"))
    IN  IF Threw(r) THEN r ELSE Return(r.w, void_type)

\* The launcher handed to make_promise: the user's keeps the handle for
\* later (nop) or settles the promise at once, then's installs a continuation.
Launch(w, launcher, p) ==
    LET w1 == Log(w, "launch", p, 0, "", promise_ptr(p))
    IN  CASE launcher.body = "nop" -> Return(w1, void_type)
          [] launcher.body = "call_resolve" ->
                Exec(w1, ResolveCall(p, launcher.x))
          [] launcher.body = "call_reject" ->
                Exec(w1, RejectCall(p, launcher.x))
          [] launcher.body = "then" -> ThenLaunch(w, launcher, p)

Exec(w, c) ==
    CASE c.fn = "resolve" -> resolve(w, c.this, c.arg)
      [] c.fn = "reject" -> reject(w, c.this, c.arg)
      [] c.fn = "on_settle" -> on_settle(w, c.this)
      [] c.fn = "handle_resolve" -> handle_resolve(w, c.this, c.h, c.next)
      [] c.fn = "handle_reject" -> handle_reject(w, c.this, c.h, c.next)
      [] c.fn = "invoke" -> Invoke(w, c.h, c.arg, c.this, c.next, c.which)
      [] c.fn = "then" -> then(w, c.this, c.on_resolve, c.on_reject, c.origin)
      [] c.fn = "pipe" -> pipe(w, c.this, c.next)
      [] c.fn = "launch" -> Launch(w, c.h, c.this)

\* ---------------------------------------------------------------- factories
\* make_resolved(value) and make_resolved()
make_resolved(w, T, value) == promise_resolved(w, T, value)

\* make_rejected(value) as make_promise followed by reject.
make_rejected_ViaReject(w, T, value) ==
    LET p == promise_default(w, T, "make_rejected")
        r == reject(p.w, p.ret.n, value)
    IN  IF Threw(r) THEN r ELSE Return(r.w, p.ret)

\* make_rejected(value) and make_rejected()
make_rejected(w, T, value) == promise_rejected(w, T, value)

\* promise::then(on_resolve): the reject handler rethrows the error.
then1(w, this, on_resolve) ==
    then(w, this, on_resolve, Handler("rethrow", Void, 0, empty_type), "then")

\* rescue whose resolve handler is [] {} for every T.
rescue_DropsValue(w, this, on_reject) ==
    then(w, this, Handler("nop", Void, 0, empty_type), on_reject, "rescue")

\* promise::rescue
rescue(w, this, on_reject) ==
    IF is_void_v(w.ptype[this])
    THEN then(w, this, Handler("nop", Void, 0, empty_type), on_reject, "rescue")
    ELSE then(w, this, Handler("identity", w.ptype[this], 0, empty_type),
              on_reject, "rescue")

\* finally that passes a rejection on in place of calling the handler.
finally_ResolveOnly(w, this, on_settle_) ==
    then(w, this, on_settle_, Handler("rethrow", Void, 0, empty_type), "finally")

\* promise::finally: one handler on both sides of the switch.
finally(w, this, on_settle_) == then(w, this, on_settle_, on_settle_, "finally")

\* ---------------------------------------------------------------- state
VARIABLES
    state,      \* promise::state of every promise
    value,      \* promise::value (the slot) of every promise
    on_settle_, \* promise::on_settle of every promise
    ptype,      \* the T of every promise<T>
    alloc,      \* promises 1..alloc exist
    origin,     \* history: the call that made each promise
    upstream,   \* history: the promise a chaining call was made on, per
                \* downstream promise (0: not made by a chaining call)
    dropped,    \* history: downstream promises whose continuation was
                \* overwritten while the upstream was PENDING
    fired,      \* history: times the continuation with that downstream ran
    called,     \* history: times its on_resolve / on_reject handler was called
    cap,        \* the promises and roots one behaviour may make
    held,       \* the promises the user has a handle of: those a call returned
    log,        \* trace of the last call made by the user
    last        \* the last call made by the user and what came back

vars == <<state, value, on_settle_, ptype, alloc, origin, upstream, dropped,
          fired, called, cap, held, log, last>>

\* The heap a call of the user starts from.
World ==
    [state |-> state, value |-> value, on_settle |-> on_settle_,
     ptype |-> ptype, alloc |-> alloc, origin |-> origin,
     upstream |-> upstream, dropped |-> dropped, fired |-> fired,
     called |-> called, cap |-> cap, log |-> <<>>, oom |-> FALSE]

\* The heap a call of the user on promise p starts from (p = 0: a factory).
\* The trace opens with what the call finds: the state and slot of p, and the
\* downstream promise of the continuation installed on p (0: none).
Enter(p) ==
    Log(World, "enter", p, IF on_settle_[p].set THEN on_settle_[p].next ELSE 0,
        "", empty_type)

Call(op, p, arg) == [op |-> op, p |-> p, arg |-> arg]

\* The call returned or threw: its effects on the heap stay.  The error for
\* settling a settled promise is the one the user does not catch: it ends the
\* program.
Done(r, call) ==
    /\ ~AlreadySettled(last.exc)
    /\ ~r.w.oom
    /\ Cardinality(Roots(r.w)) <= cap.roots
    /\ cap' = cap
    /\ state' = r.w.state
    /\ value' = r.w.value
    /\ on_settle_' = r.w.on_settle
    /\ ptype' = r.w.ptype
    /\ alloc' = r.w.alloc
    /\ origin' = r.w.origin
    /\ upstream' = r.w.upstream
    /\ dropped' = r.w.dropped
    /\ fired' = r.w.fired
    /\ called' = r.w.called
    /\ held' = IF ~Threw(r) /\ r.ret.t = "promise_ptr"
               THEN held \cup {r.ret.n} ELSE held
    /\ log' = r.w.log
    /\ last' = [op |-> call.op, p |-> call.p, arg |-> call.arg,
                exc |-> r.exc, ret |-> r.ret]

Empty ==
    /\ state = [p \in PromiseId |-> PENDING]
    /\ value = [p \in PromiseId |-> empty_type]
    /\ on_settle_ = [p \in PromiseId |-> NoContinuation]
    /\ ptype = [p \in PromiseId |-> Void]
    /\ alloc = 0
    /\ origin = [p \in PromiseId |-> ""]
    /\ upstream = [p \in PromiseId |-> 0]
    /\ dropped = {}
    /\ fired = [p \in PromiseId |-> 0]
    /\ called = [p \in PromiseId |-> [on_resolve |-> 0, on_reject |-> 0]]
    /\ held = {}
    /\ log = <<>>
    /\ last = [op |-> "", p |-> 0, arg |-> empty_type,
               exc |-> NoExc, ret |-> empty_type]

Init == Empty /\ cap = [promises |-> MaxPromises, roots |-> MaxRoots]

\* ---------------------------------------------------------------- inputs
Promises == held
Ints == {Int_(n) : n \in 1..MaxValue}
Errors == {Error_(n) : n \in 1..MaxError}

\* What can be passed to reject: any object, or an exception_ptr to one.
Rejectable == Errors \cup {make_exception_ptr(e) : e \in Errors}

\* The values of a type: those of the names in it.
ValuesOfName(name) ==
    CASE name = "void" -> {void_type}
      [] name = "int" -> Ints
      [] name = "optional" -> {nullopt}
      [] name = "error" -> Errors
      [] OTHER -> {}
ValuesOf(T) == UNION {ValuesOfName(T[i]) : i \in DOMAIN T}

\* The promises the user calls resolve and reject on: the PENDING ones, and
\* of the settled ones those that the last call was made on or returned (a
\* settled promise only throws, whenever it is called).
Touched == {last.p, last.ret.n}
Settleable == {p \in Promises : state[p] = PENDING \/ p \in Touched}

\* The arguments tried in p->resolve(v) and p->reject(e).  A settled promise
\* throws before it looks at the argument, so one argument stands for all.
ResolveArgs(p) ==
    IF state[p] = PENDING THEN ValuesOf(ptype[p])
    ELSE {value_initialized(ptype[p])}
RejectArgs(p) ==
    IF state[p] = PENDING THEN Rejectable ELSE {Error_(1)}

\* decltype of an object handed to a factory.
TypeOf(x) ==
    IF is_exception_ptr(x) THEN <<"exception_ptr">>
    ELSE IF x = void_type THEN Void
    ELSE <<x.t>>

\* The functors a user passes as handlers.  Each returns nothing, a constant,
\* its argument plus one or a promise the user holds a handle of, or throws.
ReturnsVoid == Handler("ret_void", Void, 0, empty_type)
ReturnsConst == Handler("ret_const", IntT, 99, empty_type)
ReturnsInc == Handler("ret_inc", IntT, 0, empty_type)
Throws == {Handler("throw", Void, 0, e) : e \in Errors}
ReturnsPromise ==
    {Handler("ret_promise", PromisePtrT(ptype[r]), r, empty_type) : r \in Promises}

\* A handler that returns a value computed from the promised value of T.
ReturnsValue(T) == IF T = IntT THEN ReturnsInc ELSE ReturnsConst

ResolveHandlers(T) == {ReturnsVoid, ReturnsValue(T)} \cup Throws \cup ReturnsPromise
RejectHandlers == {ReturnsVoid, ReturnsConst} \cup Throws
SettleHandlers == {ReturnsVoid} \cup Throws
HandlerPairs(T) == {ReturnsVoid, ReturnsValue(T)} \X {ReturnsConst}

\* The launchers a user passes to make_promise: keep the handle for later,
\* or settle the promise at once.
Launchers(T) ==
    {Handler("nop", Void, 0, empty_type)}
    \cup {Handler("call_resolve", Void, 0, v) : v \in ValuesOf(T)}
    \cup {Handler("call_reject", Void, 0, e) : e \in Errors}

\* ---------------------------------------------------------------- actions
\* auto p = make_promise<T>(launcher)
MakePromise ==
    \E T \in {Void, IntT} :
        \E launcher \in Launchers(T) :
            Done(make_promise(Enter(0), T, "make_promise", launcher),
                 Call("make_promise", 0, launcher.x))

\* auto p = make_resolved(v), make_resolved()
MakeResolved ==
    \E v \in Ints \cup {void_type} :
        Done(make_resolved(Enter(0), TypeOf(v), v), Call("make_resolved", 0, v))

\* auto p = make_rejected(e), make_rejected()
MakeRejected ==
    \E e \in Rejectable :
        Done(make_rejected(Enter(0), TypeOf(e), e), Call("make_rejected", 0, e))

\* p->resolve(v)
Resolve ==
    \E p \in Settleable :
        \E v \in ResolveArgs(p) :
            Done(resolve(Enter(p), p, v), Call("resolve", p, v))

\* p->reject(e)
Reject ==
    \E p \in Settleable :
        \E e \in RejectArgs(p) :
            Done(reject(Enter(p), p, e), Call("reject", p, e))

\* p->then(on_resolve, on_reject)
Then2 ==
    \E p \in Promises :
        \E h \in HandlerPairs(ptype[p]) :
            Done(then(Enter(p), p, h[1], h[2], "then"), Call("then", p, empty_type))

\* p->then(on_resolve)
Then1 ==
    \E p \in Promises :
        \E on_resolve \in ResolveHandlers(ptype[p]) :
            Done(then1(Enter(p), p, on_resolve), Call("then", p, empty_type))

\* p->rescue(on_reject)
Rescue ==
    \E p \in Promises :
        \E on_reject \in RejectHandlers :
            Done(rescue(Enter(p), p, on_reject), Call("rescue", p, empty_type))

\* p->finally(on_settle)
Finally ==
    \E p \in Promises :
        \E h \in SettleHandlers :
            Done(finally(Enter(p), p, h), Call("finally", p, empty_type))

Next ==
    \/ MakePromise
    \/ MakeResolved
    \/ MakeRejected
    \/ Resolve
    \/ Reject
    \/ Then2
    \/ Then1
    \/ Rescue
    \/ Finally

Spec == Init /\ [][Next]_vars

\* ---------------------------------------------------------------- chains
\* Longer chains, built from fewer kinds of call: promises of int made
\* PENDING, then(on_resolve), rescue with a handler that returns a value, and
\* resolve / reject of PENDING promises.
ChainInit == Empty /\ cap = [promises |-> MaxChain, roots |-> MaxChainRoots]

ChainMake ==
    Done(make_promise(Enter(0), IntT, "make_promise",
                      Handler("nop", Void, 0, empty_type)),
         Call("make_promise", 0, empty_type))

ChainThen ==
    \E p \in Promises :
        \E on_resolve \in {ReturnsValue(ptype[p])} \cup Throws \cup ReturnsPromise :
            Done(then1(Enter(p), p, on_resolve), Call("then", p, empty_type))

ChainRescue ==
    \E p \in Promises :
        Done(rescue(Enter(p), p, ReturnsConst), Call("rescue", p, empty_type))

ChainResolve ==
    \E p \in {q \in Promises : state[q] = PENDING} :
        \E v \in ValuesOf(ptype[p]) :
            Done(resolve(Enter(p), p, v), Call("resolve", p, v))

ChainReject ==
    \E p \in {q \in Promises : state[q] = PENDING} :
        \E e \in Errors :
            Done(reject(Enter(p), p, e), Call("reject", p, e))

ChainNext ==
    \/ ChainMake
    \/ ChainThen
    \/ ChainRescue
    \/ ChainResolve
    \/ ChainReject

SpecChain == ChainInit /\ [][ChainNext]_vars

\* ------------------------------------------------ programs that only chain
\* The return types of the handlers tried: nothing, two value types, and
\* handles of promises of them, one of a promise of a promise.
ReturnTypes ==
    {Void, IntT, StringT, PromisePtrT(Void), PromisePtrT(IntT),
     PromisePtrT(PromisePtrT(IntT))}

\* A functor with return type T.
Returning(T) ==
    Handler(IF is_void_v(T) THEN "ret_void"
            ELSE IF is_promise_v(T) THEN "ret_promise" ELSE "ret_const",
            T, 0, empty_type)

\* auto p = make_promise<T>([] (auto &) {})
TypeMake ==
    \E T \in {Void, IntT} :
        Done(make_promise(Enter(0), T, "make_promise",
                          Handler("nop", Void, 0, empty_type)),
             Call("make_promise", 0, empty_type))

\* p->then(on_resolve, on_reject) on a PENDING promise, for handlers of every
\* pair of return types
TypeThen ==
    \E p \in {q \in Promises : state[q] = PENDING} :
        \E Ro \in ReturnTypes, Re \in ReturnTypes :
            Done(then(Enter(p), p, Returning(Ro), Returning(Re), "then"),
                 Call("then", p, empty_type))

TypeNext ==
    \/ TypeMake
    \/ TypeThen

SpecTypes == Init /\ [][TypeNext]_vars

\* ------------------------------------------- programs with re-entrant handlers
\* Handlers that call resolve or reject on a promise the user holds:
\* [=] (auto &) { r->resolve(v); } and [=] (auto &) { r->reject(e); }.
Settles ==
    UNION {{Handler("call_resolve", Void, r, v) : v \in ValuesOf(ptype[r])}
           \cup {Handler("call_reject", Void, r, e) : e \in Errors} :
           r \in Promises}

\* p->then(on_resolve) with a handler that settles a promise, or does nothing
ReentrantThen ==
    \E p \in Promises :
        \E on_resolve \in Settles \cup {ReturnsVoid} :
            Done(then1(Enter(p), p, on_resolve), Call("then", p, empty_type))

ReentrantNext ==
    \/ ChainMake
    \/ ReentrantThen
    \/ ChainResolve
    \/ ChainReject

SpecReentrant == ChainInit /\ [][ReentrantNext]_vars

\* ---------------------------------------------------------------- claims
\* The places in the trace of the last call where ev happened.
Ev(ev) == {i \in DOMAIN log : log[i].ev = ev}
SettleOps == {"resolve", "reject"}
ChainOps == {"then", "rescue", "finally"}

\* C1: a call of resolve or reject on a promise that is not PENDING (however
\* it was settled) throws the error for settling a settled promise, and the
\* state and slot of the promise are after the call what they were before.
C1_SettledThrows ==
    (last.op \in SettleOps /\ log[1].st # PENDING) =>
        /\ AlreadySettled(last.exc)
        /\ state[last.p] = log[1].st
        /\ value[last.p] = log[1].val
        /\ Ev("settle") = {} /\ Ev("call") = {}

\* A RESOLVED promise made by make_resolved was rejected, and the call threw.
C1_Witness ==
    /\ last.op = "reject"
    /\ origin[last.p] = "make_resolved"
    /\ log[1].st = RESOLVED
    /\ AlreadySettled(last.exc)
    /\ state[last.p] = RESOLVED

\* C2: once a promise is RESOLVED or REJECTED, no call of any operation on any
\* promise (with the continuations it fires and the promises it adopts)
\* changes its state or its slot: a step changes neither, and the promises a
\* call settles were PENDING before it and are settled once in it.
C2_SettlementTerminal ==
    [][/\ \A p \in 1..alloc :
            state[p] # PENDING =>
                state'[p] = state[p] /\ value'[p] = value[p]
       /\ \A i \in DOMAIN log' :
            log'[i].ev = "settle" =>
                /\ log'[i].p \in 1..alloc => state[log'[i].p] = PENDING
                /\ \A j \in DOMAIN log' :
                     (log'[j].ev = "settle" /\ log'[j].p = log'[i].p) => j = i
      ]_vars

\* then was called on a RESOLVED promise, its handler ran, and the promise is
\* what it was.
C2_Witness ==
    /\ last.op \in ChainOps
    /\ log[1].st = RESOLVED
    /\ Ev("call") # {}
    /\ state[last.p] = RESOLVED
    /\ value[last.p] = log[1].val

\* C3: whenever a caller or a handler can look (after every call, and at
\* every point of a call where a continuation is entered, a handler called or
\* left, or an error raised), the state of a promise is PENDING iff its slot is
\* empty, RESOLVED iff it holds a value, REJECTED iff it holds an error.
C3_StateMatchesSlot ==
    /\ \A p \in 1..alloc : Consistent(state[p], value[p])
    /\ \A i \in DOMAIN log : Consistent(log[i].st, log[i].val)

\* A handler was called from the continuation fired by resolve, and found its
\* upstream RESOLVED with a value.
C3_Witness ==
    /\ last.op = "resolve"
    /\ \E i \in Ev("call") :
        /\ log[i].p = last.p
        /\ log[i].st = RESOLVED
        /\ holds_value(log[i].val)

\* C4: reject on a PENDING promise with no continuation throws the error for
\* an unhandled rejection to its caller, and calls nothing; with a
\* continuation, reject runs it, and raises no such error for that promise.
C4_RejectUnhandled ==
    (last.op = "reject" /\ log[1].st = PENDING) =>
        IF log[1].q = 0
        THEN /\ UnhandledRejection(last.exc)
             /\ Ev("fire") = {} /\ Ev("call") = {}
             /\ state[last.p] = REJECTED
        ELSE /\ Len(log) >= 3
             /\ log[3].ev = "fire" /\ log[3].p = last.p /\ log[3].q = log[1].q
             /\ \A i \in Ev("raise") :
                    log[i].p = last.p => ~UnhandledRejection(log[i].arg)

\* reject on a PENDING promise with no continuation threw.
C4_Witness ==
    /\ last.op = "reject"
    /\ log[1].st = PENDING
    /\ log[1].q = 0
    /\ UnhandledRejection(last.exc)

\* C5: make_rejected(e) returns a REJECTED promise holding e; it throws
\* nothing and calls no handler.  A chaining call made on that promise calls
\* the reject handler with that error before it returns.
C5_MakeRejected ==
    /\ last.op = "make_rejected" =>
        /\ last.exc = NoExc
        /\ last.ret.t = "promise_ptr"
        /\ state[last.ret.n] = REJECTED
        /\ value[last.ret.n] = rejection_value(last.arg)
        /\ Len(log) = 1
    /\ (last.op \in ChainOps /\ origin[last.p] = "make_rejected") =>
        /\ Len(log) >= 4
        /\ log[2].ev = "attach" /\ log[3].ev = "fire" /\ log[4].ev = "call"
        /\ log[4].p = last.p /\ log[4].q = log[2].q
        /\ log[4].which = "on_reject"
        /\ log[4].arg = value[last.p]
        /\ called[log[2].q] = [on_resolve |-> 0, on_reject |-> 1]

\* rescue on a promise made by make_rejected called the handler, and returned.
C5_Witness ==
    /\ last.op = "rescue"
    /\ origin[last.p] = "make_rejected"
    /\ last.exc = NoExc
    /\ \E i \in Ev("call") : log[i].which = "on_reject" /\ log[i].p = last.p

\* C6, as stated: once a promise is settled, every continuation that was
\* attached to it has been invoked exactly once.
C6_Original ==
    \A q \in 1..alloc :
        (upstream[q] # 0 /\ state[upstream[q]] # PENDING) => fired[q] = 1

\* C6, amended: a continuation is invoked at most once, and only right after
\* its promise is settled or right after it is attached to a settled promise;
\* exactly once when its promise is settled and it was not overwritten while
\* the promise was PENDING; never when it was overwritten or while the
\* promise is PENDING.
C6_FiredOnce ==
    /\ \A q \in 1..alloc :
        upstream[q] # 0 =>
            /\ fired[q] <= 1
            /\ q \in dropped => fired[q] = 0
            /\ state[upstream[q]] = PENDING => fired[q] = 0
            /\ (state[upstream[q]] # PENDING /\ q \notin dropped) => fired[q] = 1
    /\ \A i \in Ev("fire") :
        /\ i > 1
        /\ log[i - 1].p = log[i].p
        /\ \/ log[i - 1].ev = "settle"
           \/ /\ log[i - 1].ev = "attach"
              /\ log[i - 1].q = log[i].q
              /\ log[i - 1].st # PENDING

\* Two continuations were attached to a promise that then settled: the first
\* was not invoked, the second was, once.
C6_Witness ==
    \E q \in dropped :
        /\ state[upstream[q]] # PENDING
        /\ fired[q] = 0
        /\ \E q2 \in 1..alloc :
            upstream[q2] = upstream[q] /\ q2 # q /\ fired[q2] = 1

\* C7: when resolve on a PENDING promise with a continuation is over, the
\* resolve handler of that continuation has been called and has come back;
\* every handler called in a call has come back before the call is over.
C7_HandlersRanBeforeReturn ==
    /\ (last.op = "resolve" /\ log[1].st = PENDING /\ log[1].q # 0) =>
        /\ fired[log[1].q] = 1
        /\ \E i \in Ev("call") :
            /\ log[i].p = last.p /\ log[i].q = log[1].q
            /\ log[i].which = "on_resolve"
            /\ \E j \in Ev("end") :
                j > i /\ log[j].p = last.p /\ log[j].q = log[1].q
    /\ \A i \in Ev("call") :
        \E j \in Ev("end") :
            j > i /\ log[j].p = log[i].p /\ log[j].q = log[i].q
                  /\ log[j].which = log[i].which

\* resolve returned, and the handler attached before it has run.
C7_Witness ==
    /\ last.op = "resolve"
    /\ last.exc = NoExc
    /\ log[1].st = PENDING
    /\ log[1].q # 0
    /\ called[log[1].q].on_resolve = 1

\* C8: a continuation entered from resolve or reject, and the handler it
\* calls, find the promise settled with the value or error of that call:
\* never PENDING, never an empty slot.
C8_FiredAfterUpdate ==
    /\ \A i \in Ev("fire") \cup Ev("call") :
        log[i].st # PENDING /\ ~is_empty(log[i].val)
    /\ \A i \in Ev("fire") :
        log[i - 1].ev = "settle" =>
            /\ log[i].st = log[i - 1].st
            /\ log[i].val = log[i - 1].arg
    /\ \A i \in Ev("call") :
        \/ log[i].arg = log[i].val
        \/ log[i].arg = void_type /\ is_void_v(ptype[log[i].p])
    /\ (last.op \in SettleOps /\ log[1].st = PENDING) =>
        \A i \in Ev("fire") \cup Ev("call") :
            log[i].p = last.p =>
                /\ log[i].st = (IF last.op = "resolve" THEN RESOLVED ELSE REJECTED)
                /\ log[i].val = (IF last.op = "resolve" THEN last.arg
                                 ELSE rejection_value(last.arg))

\* reject ran a continuation whose reject handler got the error of the call.
C8_Witness ==
    /\ last.op = "reject"
    /\ \E i \in Ev("call") :
        /\ log[i].p = last.p
        /\ log[i].which = "on_reject"
        /\ log[i].st = REJECTED
        /\ log[i].arg = rejection_value(last.arg)

\* C9: a chaining call on a PENDING promise leaves its continuation as the
\* only one of the promise; the continuation it replaces is never entered and
\* its handlers are never called, and the promise the replaced chaining call
\* returned is settled by nothing but a call of resolve or reject on itself.
C9_LastContinuationOnly ==
    /\ (last.op \in ChainOps /\ log[1].st = PENDING /\ last.exc = NoExc) =>
        /\ on_settle_[last.p].set
        /\ on_settle_[last.p].next = last.ret.n
        /\ log[1].q # 0 => log[1].q \in dropped
    /\ \A q \in dropped :
        /\ fired[q] = 0
        /\ called[q] = [on_resolve |-> 0, on_reject |-> 0]
        /\ on_settle_[upstream[q]].next # q
    /\ \A i \in Ev("settle") :
        log[i].p \in dropped => (i = 2 /\ last.op \in SettleOps /\ last.p = log[i].p)
    /\ (last.op \in SettleOps /\ log[1].q # 0) =>
        \A i \in Ev("fire") \cup Ev("call") :
            (log[i].p = last.p /\ upstream[log[i].q] = last.p
                /\ origin[log[i].q] # "pipe") => log[i].q = log[1].q

\* A promise with a replaced continuation settled: the last continuation ran,
\* the promise of the replaced one is still PENDING.
C9_Witness ==
    /\ last.op \in SettleOps
    /\ log[1].q # 0
    /\ fired[log[1].q] = 1
    /\ \E q \in dropped :
        upstream[q] = last.p /\ state[q] = PENDING /\ q # log[1].q

\* Where in the trace of the last call a handler threw.
HandlerThrew == {i \in Ev("end") : log[i].arg # NoExc}

\* C10, as stated: a call of resolve or reject in which a handler of the
\* promise threw returns normally.
C10_Original ==
    (last.op \in SettleOps
        /\ \E i \in HandlerThrew : log[i].p = last.p /\ log[i].arg.t = "error")
    => last.exc = NoExc

\* C10, amended: an exception thrown by a handler is caught by the
\* continuation, which rejects the downstream promise with it (or gets the
\* error for settling a settled promise when the downstream promise is not
\* PENDING); the handler's exception never leaves the call, which throws
\* nothing or a promise_error; it throws one whenever the downstream promise
\* has no continuation.
C10_HandlerExceptionRejectsDownstream ==
    /\ \A i \in HandlerThrew :
        /\ i < Len(log)
        /\ log[i + 1].p = log[i].q
        /\ \/ /\ log[i + 1].ev = "settle"
              /\ log[i + 1].st = REJECTED
              /\ log[i + 1].val = current_exception(log[i].arg)
              /\ state[log[i].q] = REJECTED
              /\ value[log[i].q] = current_exception(log[i].arg)
           \/ /\ log[i + 1].ev = "raise"
              /\ AlreadySettled(log[i + 1].arg)
        /\ ~on_settle_[log[i].q].set => last.exc.t = "promise_error"
    /\ last.exc = NoExc \/ last.exc.t = "promise_error"

\* A handler threw in resolve: the downstream promise, which has no
\* continuation, is REJECTED with the exception, and resolve threw the error
\* for an unhandled rejection.
C10_Witness ==
    /\ last.op = "resolve"
    /\ UnhandledRejection(last.exc)
    /\ \E i \in HandlerThrew :
        /\ log[i].p = last.p
        /\ log[i].arg.t = "error"
        /\ state[log[i].q] = REJECTED
        /\ value[log[i].q] = current_exception(log[i].arg)

\* C11, as stated: then(on_resolve) on a promise made RESOLVED by
\* make_resolved, with a handler that throws x, returns the handle of a
\* promise that is REJECTED with an exception_ptr that rethrows x.
C11_Original ==
    (/\ last.op = "then"
     /\ origin[last.p] = "make_resolved"
     /\ \E i \in HandlerThrew :
            log[i].p = last.p /\ log[i].which = "on_resolve"
                /\ log[i].arg.t = "error")
    => /\ last.exc = NoExc
       /\ last.ret.t = "promise_ptr"
       /\ state[last.ret.n] = REJECTED
       /\ \E i \in HandlerThrew :
            rethrow_exception(value[last.ret.n]) = log[i].arg

\* The promises from q down a run of then(on_resolve) continuations, all of
\* them PENDING, that ends at a promise with a rescue attached whose own
\* promise is PENDING; {} if q does not head such a chain.
RECURSIVE ThenLinks(_, _)
ThenLinks(q, fuel) ==
    IF fuel = 0 \/ state[q] # PENDING \/ ~on_settle_[q].set THEN {}
    ELSE LET n == on_settle_[q].next
         IN  IF origin[n] = "rescue" /\ state[n] = PENDING THEN {q}
             ELSE IF origin[n] = "then" /\ on_settle_[q].on_reject.body = "rethrow"
             THEN LET rest == ThenLinks(n, fuel - 1)
                  IN  IF rest = {} THEN {} ELSE {q} \cup rest
             ELSE {}

\* The promise rescue returned at the end of that chain.
RescueOf(path) ==
    CHOOSE x \in 1..alloc :
        origin[x] = "rescue" /\ upstream[x] \in path
            /\ on_settle_[upstream[x]].next = x

\* C12: reject(e) on the head of a chain p.then(f1)...then(fk).rescue(h)
\* built on PENDING promises calls none of f1..fk, leaves p and every promise
\* returned by a then REJECTED with e, calls h once with e, and (h returning)
\* leaves the promise rescue returned RESOLVED with what h returned; the
\* reject handler attached to that promise is not called.
C12_RejectionFlows ==
    [][LET p == last'.p
           path == ThenLinks(p, MaxChain)
       IN  (last'.op = "reject" /\ p \in 1..alloc /\ path # {}) =>
            LET e == rejection_value(last'.arg)
                r == RescueOf(path)
                h == on_settle_[upstream[r]].on_reject
            IN  /\ \A q \in path :
                    /\ state'[q] = REJECTED /\ value'[q] = e
                    /\ called'[on_settle_[q].next].on_resolve
                         = called[on_settle_[q].next].on_resolve
                /\ called'[r].on_reject = called[r].on_reject + 1
                /\ \E i \in DOMAIN log' :
                    /\ log'[i].ev = "call" /\ log'[i].q = r
                    /\ log'[i].which = "on_reject" /\ log'[i].arg = e
                /\ h.body # "throw" =>
                    /\ state'[r] = RESOLVED
                    /\ value'[r] = (IF h.body = "ret_const" THEN Int_(h.n)
                                    ELSE value_initialized(ptype[r]))
                    /\ on_settle_[r].set =>
                        called'[on_settle_[r].next].on_reject
                            = called[on_settle_[r].next].on_reject
      ]_vars

\* reject on the head of p.then(f1).then(f2).rescue(h): the three promises
\* before the rescue are REJECTED with one error, h ran once, f1 did not, and
\* the promise of rescue is RESOLVED.
C12_Witness ==
    /\ last.op = "reject"
    /\ \E r \in 1..alloc :
        LET q2 == upstream[r]
            q1 == upstream[q2]
        IN  /\ origin[r] = "rescue" /\ origin[q2] = "then" /\ origin[q1] = "then"
            /\ upstream[q1] = last.p
            /\ state[r] = RESOLVED /\ called[r].on_reject = 1
            /\ state[q2] = REJECTED /\ state[q1] = REJECTED
            /\ value[q2] = value[last.p] /\ value[q1] = value[last.p]
            /\ value[last.p] = rejection_value(last.arg)
            /\ called[q1].on_resolve = 0 /\ called[q2].on_resolve = 0

\* c is what a promise rejected with e holds: e itself when e is an
\* exception_ptr, else a pointer whose rethrow gives e.
CarrierOf(c, e) ==
    IF is_exception_ptr(e) THEN c = e
    ELSE c.d = 1 /\ rethrow_exception(c) = e

\* The reject handler called at event i received the rejection of the promise
\* of the last call: it is a handler of that promise, or of a promise that a
\* handler further up, which raised again the error it received, had rejected.
RECURSIVE Forwarded(_)
Forwarded(i) ==
    \/ log[i].p = last.p
    \/ \E j \in 1..(i - 1) :
        /\ log[j].ev = "call" /\ log[j].which = "on_reject"
        /\ log[j].q = log[i].p
        /\ log[j + 1].ev = "end"
        /\ log[j + 1].arg = rethrow_exception(log[j].arg)
        /\ Forwarded(j)

\* C13: a promise rejected with e by reject or make_rejected holds e itself
\* if e is an exception_ptr, else a pointer that rethrows e; a reject handler
\* of that promise, or of a promise down a chain of handlers that raise the
\* error again, receives that same pointer, and no promise holds a pointer
\* to a pointer.
C13_ErrorIdentity ==
    /\ (last.op = "reject" /\ log[1].st = PENDING) =>
        CarrierOf(value[last.p], last.arg)
    /\ last.op = "make_rejected" =>
        /\ last.ret.t = "promise_ptr"
        /\ CarrierOf(value[last.ret.n], last.arg)
    /\ \A i \in Ev("call") :
        (log[i].which = "on_reject" /\ Forwarded(i)) =>
            /\ log[i].arg = value[last.p]
            /\ last.op = "reject" => CarrierOf(log[i].arg, last.arg)
    /\ \A q \in 1..alloc : state[q] = REJECTED => value[q].d = 1

\* reject with an exception_ptr on the head of p.then(f).rescue(h): h
\* received that exception_ptr.
C13_Witness ==
    /\ last.op = "reject"
    /\ is_exception_ptr(last.arg)
    /\ \E i \in Ev("call") :
        /\ log[i].which = "on_reject"
        /\ log[i].p # last.p
        /\ origin[log[i].p] = "then"
        /\ origin[log[i].q] = "rescue"
        /\ log[i].arg = last.arg

\* The handler called at event i, read from the continuation of the promise,
\* and what its body returns for the argument it was called with.
HandlerAt(i) ==
    IF log[i].which = "on_resolve" THEN on_settle_[log[i].p].on_resolve
    ELSE on_settle_[log[i].p].on_reject
Returned(i) ==
    LET h == HandlerAt(i)
    IN  CASE h.body = "ret_const" -> Int_(h.n)
          [] h.body = "ret_inc" -> Int_(log[i].arg.n + 1)
          [] OTHER -> log[i].arg

\* The calls of user handlers that returned a non-promise result or nothing,
\* whose continuation then went on to resolve a PENDING downstream promise.
ReturnedPlain ==
    {i \in Ev("call") :
        /\ on_settle_[log[i].p].set /\ on_settle_[log[i].p].next = log[i].q
        /\ HandlerAt(i).body \in {"ret_void", "ret_const", "ret_inc", "identity"}
        /\ i + 2 <= Len(log)
        /\ log[i + 1].ev = "end" /\ log[i + 1].arg = NoExc
        /\ ~(log[i + 2].ev = "raise" /\ log[i + 2].p = log[i].q)}

\* C14, as stated: a handler that returns nothing leaves the downstream
\* promise RESOLVED with void_type, on both branches.
C14_Original ==
    \A i \in ReturnedPlain :
        resolves_void_v(HandlerAt(i)) =>
            /\ state[log[i].q] = RESOLVED
            /\ value[log[i].q] = void_type

\* C14, amended: a handler that returns nothing leaves the downstream promise
\* RESOLVED with the value-initialised value of its type (void_type for
\* promise<void>, std::nullopt for promise<std::optional<X>>); a handler that
\* returns a non-promise x leaves it RESOLVED with x; on both branches, so
\* rescue with a handler returning 99 on a promise of make_rejected returns a
\* promise RESOLVED with 99.
C14_PipeOfResults ==
    /\ \A i \in ReturnedPlain :
        LET q == log[i].q
            x == IF resolves_void_v(HandlerAt(i))
                 THEN value_initialized(ptype[q])
                 ELSE Returned(i)
        IN  /\ log[i + 2].ev = "settle" /\ log[i + 2].p = q
            /\ log[i + 2].st = RESOLVED /\ log[i + 2].val = x
            /\ state[q] = RESOLVED /\ value[q] = x
            /\ (resolves_void_v(HandlerAt(i)) /\ is_void_v(ptype[q]))
                    => value[q] = void_type
    /\ (/\ last.op = "rescue" /\ origin[last.p] = "make_rejected"
        /\ last.exc = NoExc
        /\ on_settle_[last.p].on_reject = ReturnsConst) =>
            /\ state[last.ret.n] = RESOLVED
            /\ value[last.ret.n] = Int_(99)

\* Both branches ran in one call: a reject handler that returns nothing
\* resolved its downstream promise<void>, whose resolve handler returned a
\* value that resolved the next promise.
C14_Witness ==
    \E i, j \in ReturnedPlain :
        /\ log[i].which = "on_reject" /\ resolves_void_v(HandlerAt(i))
        /\ value[log[i].q] = void_type
        /\ log[j].p = log[i].q
        /\ log[j].which = "on_resolve" /\ HandlerAt(j).body = "ret_const"
        /\ state[log[j].q] = RESOLVED /\ value[log[j].q] = Int_(99)

\* d has adopted r: the continuation of r is the one r->pipe(d) installed.
Adopts(d, r) ==
    /\ on_settle_[r].set
    /\ origin[on_settle_[r].next] = "pipe"
    /\ on_settle_[r].on_resolve.n = d

\* The calls of user handlers that returned the handle of another promise.
PromiseReturned ==
    {i \in Ev("call") :
        /\ on_settle_[log[i].p].set /\ on_settle_[log[i].p].next = log[i].q
        /\ HandlerAt(i).body = "ret_promise"
        /\ HandlerAt(i).n # log[i].p
        /\ log[i + 1].ev = "end" /\ log[i + 1].arg = NoExc}

\* What a call in which a handler returned r for the promise d leaves behind:
\* pipe attached a continuation to r; with r PENDING nothing more happened to
\* d; with r settled that continuation ran and called resolve or reject on d
\* with what r holds.
AdoptionSettles ==
    \A i \in PromiseReturned :
        LET r == HandlerAt(i).n
            d == log[i].q
        IN  /\ i + 2 <= Len(log)
            /\ log[i + 2].ev = "attach" /\ log[i + 2].p = r
            /\ origin[log[i + 2].q] = "pipe"
            /\ IF log[i + 2].st = PENDING
               THEN /\ state[r] = PENDING
                    /\ Adopts(d, r)
                    /\ \A k \in (i + 1)..Len(log) :
                        log[k].p = d => log[k].ev \notin {"settle", "fire", "call"}
               ELSE /\ i + 5 <= Len(log)
                    /\ log[i + 3].ev = "fire" /\ log[i + 3].p = r
                    /\ log[i + 4].ev = "call" /\ log[i + 4].p = r
                    /\ log[i + 4].q = log[i + 2].q
                    /\ log[i + 5].p = d
                    /\ \/ /\ log[i + 5].ev = "raise"
                          /\ AlreadySettled(log[i + 5].arg)
                       \/ /\ log[i + 5].ev = "settle"
                          /\ log[i + 5].st = log[i + 4].st
                          /\ log[i + 5].val = log[i + 4].val
                          /\ state[d] = state[r] /\ value[d] = value[r]

\* C15: a handler that returns the handle r of another promise makes the
\* downstream promise d adopt r.  If r is settled, d (if PENDING) is settled
\* with the state and value of r within the same call; if r is PENDING, d is
\* left as it was, and while r is PENDING no call other than a resolve or
\* reject on d itself settles d or calls a handler chained on d; when r is
\* settled, its continuation still being the adoption, d (if PENDING) is
\* settled with the state and value of r.
C15_Adoption ==
    [][/\ AdoptionSettles'
       /\ \A d, r \in 1..alloc :
            (Adopts(d, r) /\ state[r] = PENDING /\ state[d] = PENDING) =>
                IF state'[r] = PENDING
                THEN ~(last'.op \in SettleOps /\ last'.p = d) =>
                        /\ state'[d] = PENDING
                        /\ on_settle_[d].set =>
                            called'[on_settle_[d].next]
                                = called[on_settle_[d].next]
                ELSE state'[d] = state'[r] /\ value'[d] = value'[r]
      ]_vars

\* resolve on a promise r that was PENDING when a handler returned it: the
\* adopting promise d is RESOLVED with the value of r, and the handler
\* chained on d, which had not been called, ran.
C15_Witness ==
    /\ last.op = "resolve"
    /\ log[1].st = PENDING
    /\ origin[last.p] = "make_promise"
    /\ \E d \in 1..alloc :
        /\ Adopts(d, last.p)
        /\ origin[d] = "then"
        /\ upstream[d] # last.p
        /\ state[d] = RESOLVED /\ value[d] = value[last.p]
        /\ on_settle_[d].set
        /\ called[on_settle_[d].next].on_resolve = 1
        /\ \E k \in Ev("call") : log[k].p = d

\* C16: then, rescue or finally on a settled promise runs the continuation
\* inside the call: the handler of the side that matches the state is called
\* with what the promise holds, and when the call returns the handler has
\* returned and, if it returns no promise, the promise handed back is
\* RESOLVED with its result (the value-initialised value for a handler that
\* returns nothing); make_resolved(v).then(v -> v + 1) hands back a promise
\* RESOLVED with v + 1.
C16_SettledUpstreamFiresInside ==
    (last.op \in ChainOps /\ log[1].st # PENDING) =>
        /\ Len(log) >= 5
        /\ log[2].ev = "attach" /\ log[2].p = last.p
        /\ log[3].ev = "fire" /\ log[3].p = last.p
        /\ log[4].ev = "call" /\ log[4].p = last.p /\ log[4].q = log[2].q
        /\ log[5].ev = "end"
        /\ log[4].which = (IF log[1].st = RESOLVED THEN "on_resolve"
                           ELSE "on_reject")
        /\ log[4].arg = (IF log[1].st = RESOLVED /\ is_void_v(ptype[last.p])
                         THEN void_type ELSE value[last.p])
        /\ last.exc = NoExc =>
            /\ last.ret = promise_ptr(log[2].q)
            /\ log[5].arg = NoExc
            /\ (on_settle_[last.p].next = last.ret.n
                    /\ ~resolves_promise_v(HandlerAt(4))) =>
                /\ state[last.ret.n] = RESOLVED
                /\ value[last.ret.n] =
                    (IF resolves_void_v(HandlerAt(4))
                     THEN value_initialized(ptype[last.ret.n])
                     ELSE Returned(4))
            /\ (/\ last.op = "then" /\ origin[last.p] = "make_resolved"
                /\ on_settle_[last.p].on_resolve = ReturnsInc) =>
                    /\ state[last.ret.n] = RESOLVED
                    /\ value[last.ret.n] = Int_(value[last.p].n + 1)

\* make_resolved(1)->then(v -> v + 1) returned a promise RESOLVED with 2.
C16_Witness ==
    /\ last.op = "then"
    /\ last.exc = NoExc
    /\ origin[last.p] = "make_resolved"
    /\ value[last.p] = Int_(1)
    /\ on_settle_[last.p].on_resolve = ReturnsInc
    /\ state[last.ret.n] = RESOLVED
    /\ value[last.ret.n] = Int_(2)

\* The bodies of the handlers that return, and return no promise.
PlainBodies == {"ret_void", "nop", "ret_const", "ret_inc", "identity"}

\* C17: then, rescue or finally on a PENDING promise p calls no handler,
\* leaves the state and the value of p as they were and returns a new PENDING
\* promise q; while p is PENDING no call other than a resolve or reject on q
\* itself settles q; resolve(v) on p leaves q RESOLVED with the result of the
\* resolve handler for v, when that handler returns and returns no promise.
C17_PendingUpstreamWaits ==
    [][/\ (last'.op \in ChainOps /\ last'.p \in 1..alloc
                /\ state[last'.p] = PENDING) =>
            /\ last'.exc = NoExc
            /\ last'.ret = promise_ptr(alloc + 1)
            /\ called' = called
            /\ \A i \in DOMAIN log' : log'[i].ev \notin {"fire", "call", "settle"}
            /\ state'[last'.p] = PENDING
            /\ value'[last'.p] = value[last'.p]
            /\ state'[last'.ret.n] = PENDING
            /\ on_settle_'[last'.p].set
            /\ on_settle_'[last'.p].next = last'.ret.n
       /\ \A p \in 1..alloc :
            (/\ state[p] = PENDING /\ on_settle_[p].set
             /\ state[on_settle_[p].next] = PENDING) =>
                LET q == on_settle_[p].next
                    h == on_settle_[p].on_resolve
                IN  /\ (/\ state'[p] = PENDING
                        /\ ~(last'.op \in SettleOps /\ last'.p = q)) =>
                            state'[q] = PENDING
                    /\ (/\ last'.op = "resolve" /\ last'.p = p
                        /\ h.body \in PlainBodies) =>
                            /\ state'[q] = RESOLVED
                            /\ value'[q] =
                                (CASE resolves_void_v(h) ->
                                        value_initialized(ptype[q])
                                   [] h.body = "ret_const" -> Int_(h.n)
                                   [] h.body = "ret_inc" -> Int_(last'.arg.n + 1)
                                   [] OTHER -> last'.arg)
      ]_vars

\* p->then(v -> v + 1) on a PENDING p, then p->resolve(1): the promise then
\* returned is RESOLVED with 2.
C17_Witness ==
    /\ last.op = "resolve"
    /\ last.arg = Int_(1)
    /\ log[1].st = PENDING
    /\ log[1].q # 0
    /\ origin[log[1].q] = "then"
    /\ on_settle_[last.p].on_resolve = ReturnsInc
    /\ state[log[1].q] = RESOLVED
    /\ value[log[1].q] = Int_(2)

\* How many times the handlers of the continuation that settles q were called.
Calls(q) == called[q].on_resolve + called[q].on_reject

\* C18: along a chain built by then / rescue / finally, a handler attached to
\* a promise m of the chain is called only after a handler of the
\* continuation that settles m has come back, in this call or in an earlier
\* one; the only other way is a resolve or reject the user calls on m itself.
C18_ChainOrder ==
    [][\A k \in DOMAIN log' :
        LET m == log'[k].p
        IN  (/\ log'[k].ev = "call"
             /\ origin'[m] \in ChainOps
             /\ ~(last'.op \in SettleOps /\ last'.p = m)
             /\ ~(state[m] # PENDING /\ Calls(m) = 0)) =>
                \/ Calls(m) > 0
                \/ \E j \in 1..(k - 1) :
                    /\ log'[j].ev = "end" /\ log'[j].q = m
                    /\ log'[j].p = upstream'[m]
      ]_vars

\* resolve on the head of p0.then(f1).then(f2).then(f3): f1, f2 and f3 ran,
\* each after the one before it had returned.
C18_Witness ==
    /\ last.op = "resolve"
    /\ \E j1, j2, j3 \in Ev("end") :
        /\ j1 < j2 /\ j2 < j3
        /\ log[j1].p = last.p
        /\ log[j2].p = log[j1].q /\ log[j2 - 1].ev = "call"
        /\ log[j3].p = log[j2].q /\ log[j3 - 1].ev = "call"
        /\ origin[log[j3].q] = "then"
        /\ called[log[j1].q].on_resolve = 1
        /\ called[log[j2].q].on_resolve = 1
        /\ called[log[j3].q].on_resolve = 1

\* C19, as stated: when a resolve or reject on a PENDING promise leaves a
\* promise down its chain REJECTED with no continuation installed, the call
\* throws the error for an unhandled rejection.
C19_Original ==
    (/\ last.op \in SettleOps
     /\ log[1].st = PENDING
     /\ \E i \in Ev("settle") :
            /\ log[i].st = REJECTED
            /\ origin[log[i].p] \in ChainOps
            /\ ~on_settle_[log[i].p].set)
        => UnhandledRejection(last.exc)

\* C20: every run of a continuation calls exactly one of its two handlers:
\* on_resolve, with the value held, when the promise is RESOLVED, and
\* on_reject, with the exception_ptr held, when it is REJECTED; the other
\* handler of that continuation is never called.
C20_OneHandlerPerSettlement ==
    /\ \A q \in 1..alloc :
        upstream[q] # 0 =>
            /\ Calls(q) = fired[q]
            /\ called[q].on_resolve > 0 =>
                /\ state[upstream[q]] = RESOLVED
                /\ called[q] = [on_resolve |-> 1, on_reject |-> 0]
            /\ called[q].on_reject > 0 =>
                /\ state[upstream[q]] = REJECTED
                /\ called[q] = [on_resolve |-> 0, on_reject |-> 1]
    /\ \A i \in Ev("fire") :
        /\ i < Len(log)
        /\ log[i + 1].ev = "call"
        /\ log[i + 1].p = log[i].p /\ log[i + 1].q = log[i].q
        /\ log[i].st \in {RESOLVED, REJECTED}
        /\ log[i + 1].which = (IF log[i].st = RESOLVED THEN "on_resolve"
                               ELSE "on_reject")
        /\ log[i + 1].arg = (IF log[i].st = RESOLVED /\ is_void_v(ptype[log[i].p])
                             THEN void_type ELSE log[i].val)
        /\ \A k \in Ev("call") :
            (log[k].p = log[i].p /\ log[k].q = log[i].q) => k = i + 1

\* One promise had then(on_resolve, on_reject) attached and was resolved, and
\* so was the promise then returned, which had a continuation of its own
\* made by the two-handler then: each ran on_resolve only.
C20_Witness ==
    \E q1, q2 \in 1..alloc :
        /\ upstream[q2] = q1 /\ upstream[q1] # 0
        /\ origin[q1] = "then" /\ origin[q2] = "then"
        /\ on_settle_[upstream[q1]].on_reject = ReturnsConst
        /\ on_settle_[q1].on_reject = ReturnsConst
        /\ on_settle_[upstream[q1]].next = q1 /\ on_settle_[q1].next = q2
        /\ state[upstream[q1]] = RESOLVED
        /\ called[q1] = [on_resolve |-> 1, on_reject |-> 0]
        /\ called[q2] = [on_resolve |-> 1, on_reject |-> 0]

\* The calls of the handlers of a continuation made by rescue that went on to
\* settle a PENDING downstream promise.
RescueCalls ==
    {i \in Ev("call") :
        /\ origin[log[i].q] = "rescue"
        /\ on_settle_[log[i].p].set /\ on_settle_[log[i].p].next = log[i].q
        /\ i + 2 <= Len(log)
        /\ log[i + 1].ev = "end"
        /\ ~(log[i + 2].ev = "raise" /\ log[i + 2].p = log[i].q
                /\ AlreadySettled(log[i + 2].arg))}

\* C21, as stated: rescue on a promise<void> that is resolved leaves the
\* downstream promise RESOLVED with void_type.
C21_Original ==
    \A i \in RescueCalls :
        (log[i].st = RESOLVED /\ is_void_v(ptype[log[i].p])) =>
            /\ state[log[i].q] = RESOLVED
            /\ value[log[i].q] = void_type

\* C21, amended: rescue(on_reject) on a promise that is resolved with v does
\* not call on_reject and resolves the downstream promise with v; for a
\* promise<void> it resolves it with the value-initialised value of its type
\* (void_type, or std::nullopt when on_reject returns a value).  On a promise
\* that is rejected it calls on_reject with the error held and settles the
\* downstream promise from the result: RESOLVED with what it returned,
\* REJECTED with what it threw.
C21_Rescue ==
    \A i \in RescueCalls :
        LET u == log[i].p
            q == log[i].q
            h == on_settle_[u].on_reject
        IN  /\ log[i + 2].ev = "settle" /\ log[i + 2].p = q
            /\ state[q] = log[i + 2].st /\ value[q] = log[i + 2].val
            /\ IF log[i].st = RESOLVED
               THEN /\ log[i].which = "on_resolve"
                    /\ called[q] = [on_resolve |-> 1, on_reject |-> 0]
                    /\ state[q] = RESOLVED
                    /\ value[q] = (IF is_void_v(ptype[u])
                                   THEN value_initialized(ptype[q])
                                   ELSE log[i].val)
                    /\ (is_void_v(ptype[u]) /\ is_void_v(ptype[q])) =>
                            value[q] = void_type
               ELSE /\ log[i].which = "on_reject"
                    /\ called[q] = [on_resolve |-> 0, on_reject |-> 1]
                    /\ log[i].arg = log[i].val
                    /\ IF h.body = "throw"
                       THEN /\ log[i + 1].arg = h.x
                            /\ state[q] = REJECTED
                            /\ value[q] = current_exception(h.x)
                       ELSE /\ log[i + 1].arg = NoExc
                            /\ state[q] = RESOLVED
                            /\ value[q] =
                                (IF resolves_void_v(h)
                                 THEN value_initialized(ptype[q])
                                 ELSE Int_(h.n))

\* A promise<int> with a rescue attached was resolved with 1: the promise
\* rescue returned is RESOLVED with 1 and on_reject was not called.
C21_Witness ==
    \E i \in RescueCalls :
        /\ log[i].st = RESOLVED
        /\ ptype[log[i].p] = IntT
        /\ value[log[i].p] = Int_(1)
        /\ state[log[i].q] = RESOLVED
        /\ value[log[i].q] = Int_(1)
        /\ called[log[i].q].on_reject = 0

\* The calls of the handler of a continuation made by finally.
FinallyCalls ==
    {i \in Ev("call") :
        /\ origin[log[i].q] = "finally"
        /\ on_settle_[log[i].p].set /\ on_settle_[log[i].p].next = log[i].q}

\* C22: the continuation finally installs has one handler for both sides.
\* It is called exactly once when the promise is RESOLVED and exactly once
\* when it is REJECTED, right after the settlement or right after the attach
\* to a settled promise, never while the promise is PENDING, with the value
\* or the exception_ptr held; then the downstream promise, if PENDING, is
\* RESOLVED with the value-initialised value when the handler returned
\* nothing and REJECTED with what the handler threw, as after then.
C22_Finally ==
    /\ \A q \in 1..alloc :
        origin[q] = "finally" =>
            LET u == upstream[q]
            IN  /\ Calls(q) = fired[q]
                /\ state[u] = PENDING => Calls(q) = 0
                /\ (state[u] = RESOLVED /\ q \notin dropped) =>
                        called[q] = [on_resolve |-> 1, on_reject |-> 0]
                /\ (state[u] = REJECTED /\ q \notin dropped) =>
                        called[q] = [on_resolve |-> 0, on_reject |-> 1]
    /\ \A i \in FinallyCalls :
        LET u == log[i].p
            q == log[i].q
            h == HandlerAt(i)
        IN  /\ on_settle_[u].on_resolve = on_settle_[u].on_reject
            /\ i > 2 /\ i + 2 <= Len(log)
            /\ log[i - 1].ev = "fire" /\ log[i - 1].p = u
            /\ log[i - 2].p = u
            /\ \/ log[i - 2].ev = "settle"
               \/ log[i - 2].ev = "attach" /\ log[i - 2].st # PENDING
            /\ log[i].arg = (IF log[i].st = RESOLVED /\ is_void_v(ptype[u])
                             THEN void_type ELSE log[i].val)
            /\ log[i + 1].ev = "end"
            /\ log[i + 1].arg = (IF h.body = "throw" THEN h.x ELSE NoExc)
            /\ log[i + 2].p = q
            /\ \/ /\ log[i + 2].ev = "raise"
                  /\ AlreadySettled(log[i + 2].arg)
               \/ /\ log[i + 2].ev = "settle"
                  /\ state[q] = log[i + 2].st /\ value[q] = log[i + 2].val
                  /\ IF h.body = "throw"
                     THEN /\ state[q] = REJECTED
                          /\ value[q] = current_exception(h.x)
                     ELSE /\ state[q] = RESOLVED
                          /\ value[q] = value_initialized(ptype[q])

\* One finally handler ran for a rejection and the finally handler chained
\* on its promise ran for the resolution that followed.
C22_Witness ==
    \E q1, q2 \in 1..alloc :
        /\ origin[q1] = "finally" /\ origin[q2] = "finally"
        /\ upstream[q2] = q1
        /\ state[upstream[q1]] = REJECTED
        /\ called[q1] = [on_resolve |-> 0, on_reject |-> 1]
        /\ state[q1] = RESOLVED
        /\ called[q2] = [on_resolve |-> 1, on_reject |-> 0]

\* The calls of handlers that call resolve or reject on a promise, and the
\* event at which such a call came back.
ReentrantCalls ==
    {i \in Ev("call") :
        /\ on_settle_[log[i].p].set /\ on_settle_[log[i].p].next = log[i].q
        /\ HandlerAt(i).body \in {"call_resolve", "call_reject"}}
EndOf(i) ==
    CHOOSE j \in (i + 1)..Len(log) :
        log[j].ev = "end" /\ log[j].p = log[i].p /\ log[j].q = log[i].q

\* What the log shows after a handler called resolve or reject on t: t was
\* settled with the argument and its continuation ran before the handler came
\* back, or the call threw the error for a settled promise into the handler
\* and changed nothing.
ReentrantSettles ==
    \A i \in ReentrantCalls :
        LET h == HandlerAt(i)
            t == h.n
            u == log[i].p
            j == EndOf(i)
        IN  /\ i + 2 <= Len(log)
            /\ \E k \in (i + 1)..Len(log) :
                log[k].ev = "end" /\ log[k].p = u /\ log[k].q = log[i].q
            /\ log[i + 1].p = t
            /\ IF log[i + 1].ev = "settle"
               THEN /\ log[i + 1].st = (IF h.body = "call_resolve"
                                        THEN RESOLVED ELSE REJECTED)
                    /\ log[i + 1].val = (IF h.body = "call_resolve"
                                         THEN h.x ELSE rejection_value(h.x))
                    /\ state[t] = log[i + 1].st /\ value[t] = log[i + 1].val
                    /\ IF on_settle_[t].set
                       THEN /\ log[i + 2].ev = "fire" /\ log[i + 2].p = t
                            /\ log[i + 3].ev = "call" /\ log[i + 3].p = t
                            /\ i + 3 < j
                            /\ fired[on_settle_[t].next] = 1
                       ELSE IF h.body = "call_reject"
                       THEN /\ log[i + 2].ev = "raise"
                            /\ UnhandledRejection(log[i + 2].arg)
                            /\ j = i + 3 /\ log[j].arg = log[i + 2].arg
                       ELSE j = i + 2 /\ log[j].arg = NoExc
               ELSE /\ log[i + 1].ev = "raise"
                    /\ AlreadySettled(log[i + 1].arg)
                    /\ j = i + 2 /\ log[j].arg = log[i + 1].arg
            /\ t = u =>
                /\ log[i + 1].ev = "raise"
                /\ state[u] = log[i].st /\ value[u] = log[i].val

\* C23: a handler that calls resolve or reject on a PENDING promise settles
\* it as a call by the user would: the promise takes the state and the value,
\* and its continuation runs before the handler comes back, inside the outer
\* continuation.  A handler that calls resolve or reject on a settled promise,
\* its own upstream among them, gets the error for a settled promise, and
\* state and value of that promise stay as they were.
C23_Reentrancy ==
    [][/\ ReentrantSettles'
       /\ \A i \in ReentrantCalls' :
            LET t == HandlerAt(i)'.n
                before == {k \in 1..(i - 1) :
                             log'[k].ev = "settle" /\ log'[k].p = t}
            IN  IF state[t] = PENDING /\ before = {}
                THEN log'[i + 1].ev = "settle"
                ELSE /\ log'[i + 1].ev = "raise"
                     /\ state[t] # PENDING =>
                            state'[t] = state[t] /\ value'[t] = value[t]
      ]_vars

\* A handler resolved another promise, which was PENDING and had a
\* continuation: that continuation's handler ran before the outer handler
\* came back.
C23_Witness ==
    \E i \in ReentrantCalls :
        LET t == HandlerAt(i).n
        IN  /\ HandlerAt(i).body = "call_resolve"
            /\ t # log[i].p
            /\ origin[t] = "make_promise"
            /\ log[i + 1].ev = "settle" /\ log[i + 1].p = t
            /\ state[t] = RESOLVED
            /\ on_settle_[t].set
            /\ log[i + 3].ev = "call" /\ log[i + 3].p = t
            /\ i + 3 < EndOf(i)
            /\ called[on_settle_[t].next].on_resolve = 1

\* The type table of then as the specification states it: one layer of
\* promise handle is taken off a handler's return type, and the two results
\* are combined.
UnwrapOnce(T) == IF is_promise_v(T) THEN Tail(T) ELSE T
Combine(A, B) ==
    IF is_void_v(A) /\ is_void_v(B) THEN Void
    ELSE IF is_void_v(A) THEN OptionalT(B)
    ELSE IF is_void_v(B) THEN OptionalT(A)
    ELSE IF A = B THEN A
    ELSE VariantT(A, B)

\* The promises then returned whose continuation is still installed, with the
\* return types of its two handlers.
Chained == {q \in 1..alloc : upstream[q] # 0 /\ on_settle_[upstream[q]].next = q}
Ro(q) == on_settle_[upstream[q]].on_resolve.ret
Re(q) == on_settle_[upstream[q]].on_reject.ret
Nested(T) == is_promise_v(T) /\ is_promise_v(Tail(T))

\* C24: for handlers returning void, a value type or the handle of a promise
\* of one, the promise then returns is a promise of Combine of the two
\* unwrapped return types: void for void and void, std::optional<X> for void
\* and X in either order, X for X and X, std::variant<X, Y> for X and another
\* type Y.
C24_CombineTable ==
    \A q \in Chained :
        (~Nested(Ro(q)) /\ ~Nested(Re(q))) =>
            LET A == UnwrapOnce(Ro(q))
                B == UnwrapOnce(Re(q))
            IN  /\ ptype[q] = Combine(A, B)
                /\ (A = Void /\ B = Void) => ptype[q] = Void
                /\ (A = Void /\ B # Void) => ptype[q] = <<"optional">> \o B
                /\ (A # Void /\ B = Void) => ptype[q] = <<"optional">> \o A
                /\ (A # Void /\ A = B) => ptype[q] = A
                /\ (A # Void /\ B # Void /\ A # B) =>
                        ptype[q] = <<"variant">> \o A \o B

\* then with a handler returning a handle of a promise<int> and a handler
\* returning a string gave a promise of std::variant<int, str>.
C24_Witness ==
    \E q \in Chained :
        /\ Ro(q) = PromisePtrT(IntT)
        /\ Re(q) = StringT
        /\ ptype[q] = <<"variant", "int", "str">>

\* C25, as stated: then with a handler that returns the handle of a promise
\* of a promise handle returns a promise whose value type has one layer
\* less, so it is still a promise handle.
C25_Original ==
    \A q \in Chained :
        (Nested(Ro(q)) /\ Re(q) = Ro(q)) =>
            /\ ptype[q] = UnwrapOnce(Ro(q))
            /\ is_promise_v(ptype[q])

\* The calls of a user's launcher in the last call.
Launches == Ev("launch")

\* C26: make_promise<T>(launcher) makes a PENDING promise without a
\* continuation, calls the launcher once with the handle to it before it
\* returns, and returns the handle to that promise; a launcher that resolves
\* the promise leaves it RESOLVED with the value when make_promise returns, and
\* a launcher that rejects it has the unhandled-rejection error leave
\* make_promise.
C26_MakePromise ==
    last.op = "make_promise" =>
        LET p == alloc
        IN  /\ Launches = {2}
            /\ log[2].p = p /\ log[2].arg = promise_ptr(p)
            /\ log[2].st = PENDING /\ log[2].val = empty_type
            /\ origin[p] = "make_promise"
            /\ ~on_settle_[p].set
            /\ fired[p] = 0
            /\ last.exc = NoExc => (last.ret = promise_ptr(p) /\ p \in held)
            /\ last.arg = empty_type =>
                    (state[p] = PENDING /\ last.exc = NoExc)
            /\ last.arg \in ValuesOf(ptype[p]) =>
                    /\ state[p] = RESOLVED
                    /\ value[p] = last.arg
                    /\ last.exc = NoExc
            /\ last.arg \in Errors =>
                    /\ state[p] = REJECTED
                    /\ UnhandledRejection(last.exc)
                    /\ p \notin held

\* make_promise with a launcher that resolves the promise returned a RESOLVED
\* promise.
C26_Witness ==
    /\ last.op = "make_promise"
    /\ Launches = {2}
    /\ last.ret = promise_ptr(alloc)
    /\ state[alloc] = RESOLVED
    /\ value[alloc] \in Ints

\* The last call was resolve or reject on a promise that was PENDING when it
\* was made.
SettledNow == last.op \in SettleOps /\ log[1].st = PENDING

\* C27: resolve(v) or reject(e) on a PENDING promise leaves it RESOLVED with v
\* or REJECTED with e when the call ends, whether it returns, throws the
\* unhandled-rejection error or throws what escaped from the continuation;
\* from then on resolve and reject on the promise throw the error for a
\* settled promise and change nothing, and rescue on a REJECTED promise calls
\* its handler with the error stored.
C27_NoRollback ==
    [][LET p == last'.p
       IN  /\ SettledNow' =>
                /\ state[p] = PENDING
                /\ last'.op = "resolve" =>
                        (state'[p] = RESOLVED /\ value'[p] = last'.arg)
                /\ last'.op = "reject" =>
                        /\ state'[p] = REJECTED
                        /\ value'[p] = rejection_value(last'.arg)
           /\ (last'.op \in SettleOps /\ state[p] # PENDING) =>
                /\ AlreadySettled(last'.exc)
                /\ state'[p] = state[p]
                /\ value'[p] = value[p]
           /\ (last'.op = "rescue" /\ state[p] = REJECTED) =>
                /\ state'[p] = REJECTED /\ value'[p] = value[p]
                /\ \E i \in Ev("call")' :
                        /\ log'[i].p = p
                        /\ log'[i].which = "on_reject"
                        /\ log'[i].arg = value[p]
                /\ (SettledNow /\ last.op = "reject" /\ last.p = p) =>
                        \E i \in Ev("call")' :
                            /\ log'[i].p = p
                            /\ log'[i].arg = rejection_value(last.arg)]_vars

\* resolve on a PENDING promise threw what escaped from its continuation, and
\* the promise is RESOLVED with the value.
C27_Witness ==
    /\ SettledNow
    /\ last.op = "resolve"
    /\ last.exc # NoExc
    /\ Ev("call") # {}
    /\ state[last.p] = RESOLVED
    /\ value[last.p] = last.arg

\* The last call was then, rescue or finally on a promise that was settled when
\* it was made; Downstream is the promise the call made for its result.
ChainedOnSettled == last.op \in ChainOps /\ log[1].st # PENDING
Downstream ==
    LET a == {i \in Ev("attach") : log[i].p = last.p}
    IN  IF a = {} THEN 0
        ELSE log[CHOOSE i \in a : \A j \in a : i <= j].q
DownstreamRejected ==
    /\ ChainedOnSettled
    /\ Downstream # 0
    /\ state[Downstream] = REJECTED

\* C28, as stated: then, rescue or finally on a settled promise whose
\* continuation rejects the downstream promise throws the unhandled-rejection
\* error and returns no handle, the downstream promise having no
\* continuation.
C28_Original ==
    DownstreamRejected =>
        /\ ~on_settle_[Downstream].set
        /\ UnhandledRejection(last.exc)
        /\ Downstream \notin held

\* The handler calls that came back with no exception, after which the
\* continuation resolved the downstream promise, and an error was thrown
\* further on in the call: it was thrown while the continuation of the
\* downstream promise ran.
EscapedBelow ==
    {i \in Ev("end") :
        /\ log[i].arg = NoExc
        /\ i + 1 < Len(log)
        /\ log[i + 1].ev = "settle"
        /\ log[i + 1].p = log[i].q
        /\ log[i + 1].st = RESOLVED
        /\ \E j \in (i + 2)..Len(log) : log[j].ev = "raise"}

\* C29: an error that leaves the continuation of the downstream promise q
\* while the upstream continuation is resolving q is caught by the upstream
\* continuation, whose reject on q throws the error for a settled promise: q
\* stays RESOLVED with the handler's result, and the caller gets the error
\* for a settled promise in place of the error that was thrown below.
C29_EscapeReplaced ==
    \A i \in EscapedBelow :
        LET q == log[i].q
        IN  /\ state[q] = RESOLVED
            /\ value[q] = log[i + 1].val
            /\ \E j \in (i + 2)..Len(log) :
                /\ log[j].ev = "raise" /\ log[j].p = q
                /\ log[j].arg =
                        promise_error("Attempted to reject settled promise")
            /\ last.exc = promise_error("Attempted to reject settled promise")

\* p.resolve in a chain p -> q -> r where the handler of q threw and r had no
\* continuation: r.reject threw the unhandled-rejection error, and the caller
\* of p.resolve got the error for a settled promise.
C29_Witness ==
    /\ last.op = "resolve"
    /\ \E i \in EscapedBelow :
        /\ log[i].p = last.p
        /\ \E j \in (i + 2)..Len(log) :
            /\ log[j].ev = "raise"
            /\ UnhandledRejection(log[j].arg)
            /\ upstream[log[j].p] = log[i].q
        /\ \E k \in HandlerThrew : log[k].p = log[i].q
    /\ AlreadySettled(last.exc)

\* The consumers of r whose continuation was replaced while r was PENDING.
Disconnected(r) == {c \in dropped : upstream[c] = r}

\* d is PENDING because the handler that was called for it returned r: the
\* continuation of the RESOLVED upstream of d has fired, and its handler
\* returns the handle of r.
Adopted(d, r) ==
    LET u == upstream[d]
    IN  /\ u # 0 /\ state[u] = RESOLVED
        /\ on_settle_[u].set /\ on_settle_[u].next = d
        /\ on_settle_[u].on_resolve.body = "ret_promise"
        /\ on_settle_[u].on_resolve.n = r
        /\ fired[d] = 1
        /\ state[d] = PENDING

\* Nothing in the next call fires the continuation made for c or calls its
\* handlers; nothing in it settles c either.
NotInvoked(c) ==
    /\ fired'[c] = fired[c] /\ called'[c] = called[c]
    /\ \A k \in DOMAIN log' :
        log'[k].q = c => log'[k].ev \notin {"fire", "call", "end"}
Untouched(c) ==
    /\ NotInvoked(c)
    /\ state'[c] = state[c] /\ value'[c] = value[c]
    /\ \A k \in DOMAIN log' : log'[k].p = c => log'[k].ev # "settle"

\* C30: adoption installs its continuation on the returned promise r with
\* then, in place of the one r had: the consumer chained on a PENDING r before
\* a handler returned r is disconnected, its handlers are not called when r
\* settles, and the adopting promise alone is settled with what r holds; a
\* chaining call on r after the adoption, while r is PENDING, disconnects the
\* adopting promise, which stays PENDING when r settles.
C30_AdoptionOverwrites ==
    [][LET r == last'.p
       IN  /\ \A i \in PromiseReturned' :
                LET a == HandlerAt(i)'.n
                IN  (/\ on_settle_[a].set
                     /\ log'[i + 2].ev = "attach" /\ log'[i + 2].p = a
                     /\ log'[i + 2].st = PENDING
                     /\ \A k \in 1..(i + 1) :
                            ~(log'[k].ev = "attach" /\ log'[k].p = a)) =>
                        /\ on_settle_[a].next \in dropped'
                        /\ on_settle_'[a].next # on_settle_[a].next
                        /\ origin'[on_settle_'[a].next] = "pipe"
                        /\ NotInvoked(on_settle_[a].next)
           /\ (last'.op \in SettleOps /\ state[r] = PENDING) =>
                \A d \in 1..alloc :
                    /\ (Adopts(d, r) /\ state[d] = PENDING) =>
                            /\ state'[d] = state'[r]
                            /\ value'[d] = value'[r]
                            /\ \A c \in Disconnected(r) : Untouched(c)
                    /\ (Adopted(d, r) /\ ~Adopts(d, r)) =>
                            /\ Untouched(d)
                            /\ state'[d] = PENDING
           /\ (last'.op \in ChainOps /\ state[r] = PENDING) =>
                \A d \in 1..alloc :
                    Adopts(d, r) =>
                        /\ ~(/\ origin'[on_settle_'[r].next] = "pipe"
                              /\ on_settle_'[r].on_resolve.n = d)
                        /\ on_settle_[r].next \in dropped'
                        /\ on_settle_'[r].next = last'.ret.n
                        /\ Untouched(d)]_vars

\* r had a consumer c when a handler returned r for d; r was then resolved:
\* d is RESOLVED with the value of r, and c is PENDING, its handlers not
\* called.
C30_Witness ==
    /\ last.op = "resolve"
    /\ log[1].st = PENDING
    /\ \E d \in 1..alloc, c \in Disconnected(last.p) :
        /\ Adopts(d, last.p)
        /\ origin[d] = "then" /\ upstream[d] # last.p
        /\ state[d] = RESOLVED /\ value[d] = value[last.p]
        /\ origin[c] = "then"
        /\ state[c] = PENDING
        /\ fired[c] = 0 /\ called[c].on_resolve = 0 /\ called[c].on_reject = 0

\* The promises whose continuation has run.
Fired(p) == {q \in 1..alloc : upstream[q] = p /\ fired[q] > 0}

\* C31: whatever calls were made, no continuation has run more than once and
\* no chaining call has had more than one call of a handler of its, in total
\* and within the last call; the continuation that ran is still installed:
\* has_handler is true of a settled promise whose continuation has run.
C31_AtMostOnce ==
    /\ \A q \in 1..alloc :
        /\ fired[q] <= 1
        /\ called[q].on_resolve + called[q].on_reject <= 1
    /\ \A i, j \in Ev("fire") : log[i].q = log[j].q => i = j
    /\ \A i, j \in Ev("call") : log[i].q = log[j].q => i = j
    /\ \A p \in 1..alloc :
        Fired(p) # {} =>
            /\ state[p] # PENDING
            /\ has_handler(World, p)
            /\ on_settle_[p].next \in Fired(p)

\* A promise whose continuation had run when it was resolved was then given
\* to resolve or reject again: the call threw, the continuation is still
\* installed and it and its handler have run once.
C31_Witness ==
    /\ last.op \in SettleOps
    /\ AlreadySettled(last.exc)
    /\ has_handler(World, last.p)
    /\ LET q == on_settle_[last.p].next
       IN  /\ fired[q] = 1
           /\ called[q].on_resolve + called[q].on_reject = 1
           /\ origin[q] \in ChainOps
====
